---- MODULE Spec2Model ----
(***************************************************************************)
(* A model of the iris IRC server (src/lib/mod.rs, src/lib/client.rs).     *)
(*                                                                         *)
(* Every accepted connection runs two threads: a reader, which runs the    *)
(* login loop, inserts the session into the clients registry and then      *)
(* dispatches commands, and a writer, which drains the session's mpsc      *)
(* channel.  A sink is a Sender of that channel; it is identified here by  *)
(* the connection it belongs to.  A Sender::send fails once the Receiver   *)
(* has been dropped, i.e. once the writer thread has returned or panicked; *)
(* every send in the source is followed by unwrap(), so a failed send      *)
(* panics the sending thread, and a panic while a MutexGuard is alive      *)
(* poisons that mutex: every later lock().unwrap() on it panics.           *)
(*                                                                         *)
(* A critical section contains no blocking operation (the channel is       *)
(* unbounded), so each one is a single atomic step of the model.  A        *)
(* Receiver is also dropped when the last Sender is; by then no thread     *)
(* holds a sink of that connection, so the model does not show it.         *)
(***************************************************************************)
EXTENDS Integers, Sequences, FiniteSets, TLC

\* Bounds of the model.
NumConns == 2
NumNicks == 2
NumChans == 1
MaxQueue == 2

Conns == 1..NumConns
Nicks == 1..NumNicks
Chans == 1..NumChans
\* Option::None for a nick, and "no channel" for a handler's local.
None == 0

VARIABLES
    phase,            \* reader thread's position, per connection
    nick,             \* Client.nick (None or a nick)
    user,             \* Client.user.is_some()
    chan,             \* the channel of the JOIN/PART being handled
    pending,          \* QUIT handler's empty_channels still to be removed
    quitInLogin,      \* history: a QUIT was received in the login loop
    queue,            \* the mpsc channel of each connection
    rxAlive,          \* the Receiver (writer thread) still exists
    clients,          \* Iris.clients: nick -> sink
    channels,         \* Iris.channels: channel -> (nick -> sink)
    clientsPoisoned,  \* the clients mutex is poisoned
    channelsPoisoned  \* the channels mutex is poisoned

vars == <<phase, nick, user, chan, pending, quitInLogin, queue, rxAlive,
          clients, channels, clientsPoisoned, channelsPoisoned>>

sessionVars == <<nick, user, chan, pending, quitInLogin>>
registryVars == <<clients, channels, clientsPoisoned, channelsPoisoned>>

\* IrcEvent::Send(reply) carries the reply kind, the sender's nick and the
\* target (a nick or a channel); IrcEvent::Terminate carries nothing.
Event(k, from, tn, ch) == [k |-> k, from |-> from, tn |-> tn, ch |-> ch]
Terminate == Event("Terminate", None, None, None)
ErrReply(k) == Event(k, None, None, None)

\* The queues stay within the model's bound.
QueueBound == \A c \in Conns : Len(queue[c]) <= MaxQueue

\* Sender::send on the sinks of R, all of which succeed.
Deliver(q, R, ev) ==
    [c \in Conns |-> IF c \in R THEN Append(q[c], ev) ELSE q[c]]

Panicked(c) == [phase EXCEPT ![c] = "panicked"]

\* HashMap::new, insert, remove, and the sinks a member map holds.
EmptyMap == [x \in {} |-> None]
MapPut(m, k, v) == [x \in DOMAIN m \cup {k} |-> IF x = k THEN v ELSE m[x]]
MapDel(m, k) == [x \in DOMAIN m \ {k} |-> m[x]]
Sinks(m) == {m[n] : n \in DOMAIN m}

\* q with k copies of ev appended.
RECURSIVE AppendN(_, _, _)
AppendN(q, ev, k) == IF k = 0 THEN q ELSE AppendN(Append(q, ev), ev, k - 1)

Init ==
    /\ phase = [c \in Conns |-> "login"]
    /\ nick = [c \in Conns |-> None]
    /\ user = [c \in Conns |-> FALSE]
    /\ chan = [c \in Conns |-> None]
    /\ pending = [c \in Conns |-> {}]
    /\ quitInLogin = [c \in Conns |-> FALSE]
    /\ queue = [c \in Conns |-> <<>>]
    /\ rxAlive = [c \in Conns |-> TRUE]
    /\ clients = EmptyMap
    /\ channels = EmptyMap
    /\ clientsPoisoned = FALSE
    /\ channelsPoisoned = FALSE

----------------------------------------------------------------------------
\* Client::send / Client::terminate on the session's own sink: the event is
\* enqueued and the reader moves to `next', or the send fails and the reader
\* panics, holding no lock.
SelfSend(c, ev, next) ==
    IF rxAlive[c]
    THEN /\ queue' = [queue EXCEPT ![c] = Append(@, ev)]
         /\ phase' = [phase EXCEPT ![c] = next]
    ELSE /\ queue' = queue
         /\ phase' = Panicked(c)

\* A login loop that returns Some(nick) without calling welcome().
LoginCheckNoWelcome(c, n, u) ==
    IF n # None /\ u
    THEN /\ phase' = [phase EXCEPT ![c] = "insert"]
         /\ UNCHANGED queue
    ELSE UNCHANGED <<phase, queue>>

\* The end of one iteration of the login loop: with nick and user both set,
\* welcome() sends the Welcome reply and login() returns Some(nick).
LoginCheck(c, n, u) ==
    IF n # None /\ u
    THEN SelfSend(c, Event("Welcome", None, n, None), "insert")
    ELSE UNCHANGED <<phase, queue>>

\* Handler<NickMsg> in the login loop.
LoginNick(c, n) ==
    /\ phase[c] = "login"
    /\ IF clientsPoisoned
       THEN /\ phase' = Panicked(c)
            /\ UNCHANGED <<nick, queue>>
       ELSE IF n \in DOMAIN clients
       THEN /\ SelfSend(c, ErrReply("ErrNickCollision"), "login")
            /\ UNCHANGED nick
       ELSE /\ nick' = [nick EXCEPT ![c] = IF @ = None THEN n ELSE @]
            /\ LoginCheck(c, nick'[c], user[c])
    /\ UNCHANGED <<user, chan, pending, quitInLogin, rxAlive>>
    /\ UNCHANGED registryVars
    /\ QueueBound'

\* Handler<UserMsg> in the login loop.
LoginUser(c) ==
    /\ phase[c] = "login"
    /\ user' = [user EXCEPT ![c] = TRUE]
    /\ LoginCheck(c, nick[c], TRUE)
    /\ UNCHANGED <<nick, chan, pending, quitInLogin, rxAlive>>
    /\ UNCHANGED registryVars
    /\ QueueBound'

\* Message::Quit in the login loop: terminate(), and the loop goes on.
LoginQuit(c) ==
    /\ phase[c] = "login"
    /\ SelfSend(c, Terminate, "login")
    /\ quitInLogin' = [quitInLogin EXCEPT ![c] = TRUE]
    /\ UNCHANGED <<nick, user, chan, pending, rxAlive>>
    /\ UNCHANGED registryVars
    /\ QueueBound'

\* recv() fails with ConnectionLost/ConnectionClosed in the login loop:
\* login() returns None and the reader terminates.
LoginConnLost(c) ==
    /\ phase[c] = "login"
    /\ SelfSend(c, Terminate, "done")
    /\ UNCHANGED sessionVars
    /\ UNCHANGED rxAlive
    /\ UNCHANGED registryVars
    /\ QueueBound'

\* clients.lock().unwrap().insert(nick, tx.clone()) after login().
InsertClient(c) ==
    /\ phase[c] = "insert"
    /\ IF clientsPoisoned
       THEN /\ phase' = Panicked(c)
            /\ UNCHANGED clients
       ELSE /\ clients' = [n \in DOMAIN clients \cup {nick[c]} |->
                              IF n = nick[c] THEN c ELSE clients[n]]
            /\ phase' = [phase EXCEPT ![c] = "steady"]
    /\ UNCHANGED sessionVars
    /\ UNCHANGED <<queue, rxAlive, channels, clientsPoisoned, channelsPoisoned>>

----------------------------------------------------------------------------
\* A fan-out inside the channels critical section: send ev to every sink
\* of R, in the HashMap's (arbitrary) iteration order.  The first send to a
\* dropped Receiver panics with the guard alive: the sinks visited before
\* it (any set S of the live ones) have the event, the mutex is poisoned.
FanOut(c, R, ev, next) ==
    IF \A r \in R : rxAlive[r]
    THEN /\ queue' = Deliver(queue, R, ev)
         /\ phase' = [phase EXCEPT ![c] = next]
         /\ UNCHANGED channelsPoisoned
    ELSE /\ \E S \in SUBSET {r \in R : rxAlive[r]} :
                queue' = Deliver(queue, S, ev)
         /\ phase' = Panicked(c)
         /\ channelsPoisoned' = TRUE

\* Handler<NickMsg> without the self.nick.is_none() test: a NICK naming a
\* free nick renames the session.
SteadyNickRenames(c, n) ==
    /\ phase[c] = "steady"
    /\ IF clientsPoisoned
       THEN /\ phase' = Panicked(c)
            /\ UNCHANGED <<queue, nick>>
       ELSE IF n \in DOMAIN clients
       THEN /\ SelfSend(c, ErrReply("ErrNickCollision"), "steady")
            /\ UNCHANGED nick
       ELSE /\ nick' = [nick EXCEPT ![c] = n]
            /\ UNCHANGED <<phase, queue>>
    /\ UNCHANGED <<user, chan, pending, quitInLogin, rxAlive>>
    /\ UNCHANGED registryVars
    /\ QueueBound'

\* Handler<NickMsg> dispatched by handle_message after login.
SteadyNick(c, n) ==
    /\ phase[c] = "steady"
    /\ IF clientsPoisoned
       THEN /\ phase' = Panicked(c)
            /\ UNCHANGED queue
            /\ UNCHANGED nick
       ELSE IF n \in DOMAIN clients
       THEN /\ SelfSend(c, ErrReply("ErrNickCollision"), "steady")
            /\ UNCHANGED nick
       ELSE /\ nick' = [nick EXCEPT ![c] = IF @ = None THEN n ELSE @]
            /\ UNCHANGED <<phase, queue>>
    /\ UNCHANGED <<user, chan, pending, quitInLogin, rxAlive>>
    /\ UNCHANGED registryVars
    /\ QueueBound'

\* Handler<PrivMsg>, Target::User.  The clients guard is a temporary of
\* the if-let scrutinee: it is alive during the send to the peer, so a
\* failed send poisons clients.  Whether it is still alive in the else
\* block (the NoSuchNick reply to the session itself) depends on the
\* edition the crate is built with: both outcomes are allowed there.
PrivMsgUser(c, n) ==
    /\ phase[c] = "steady"
    /\ IF clientsPoisoned
       THEN /\ phase' = Panicked(c)
            /\ UNCHANGED <<queue, clientsPoisoned>>
       ELSE LET to == IF n \in DOMAIN clients THEN clients[n] ELSE c
                ev == IF n \in DOMAIN clients
                      THEN Event("PrivMsg", nick[c], n, None)
                      ELSE ErrReply("ErrNoSuchNick")
            IN  IF rxAlive[to]
                THEN /\ queue' = [queue EXCEPT ![to] = Append(@, ev)]
                     /\ UNCHANGED <<phase, clientsPoisoned>>
                ELSE /\ phase' = Panicked(c)
                     /\ clientsPoisoned' \in
                            IF n \in DOMAIN clients THEN {TRUE} ELSE BOOLEAN
                     /\ UNCHANGED queue
    /\ UNCHANGED sessionVars
    /\ UNCHANGED <<rxAlive, clients, channels, channelsPoisoned>>
    /\ QueueBound'

\* Handler<PrivMsg>, Target::Channel: every member whose nick is not the
\* sender's, under the channels guard; the NoSuchChannel reply goes to the
\* session itself from the else block (see PrivMsgUser for its guard).
PrivMsgChannel(c, ch) ==
    /\ phase[c] = "steady"
    /\ IF channelsPoisoned
       THEN /\ phase' = Panicked(c)
            /\ UNCHANGED <<queue, channelsPoisoned>>
       ELSE IF ch \in DOMAIN channels
       THEN FanOut(c, {channels[ch][n] : n \in DOMAIN channels[ch] \ {nick[c]}},
                   Event("PrivMsg", nick[c], None, ch), "steady")
       ELSE /\ SelfSend(c, ErrReply("ErrNoSuchChannel"), "steady")
            /\ channelsPoisoned' \in IF rxAlive[c] THEN {FALSE} ELSE BOOLEAN
    /\ UNCHANGED sessionVars
    /\ UNCHANGED <<rxAlive, clients, channels, clientsPoisoned>>
    /\ QueueBound'

\* Handler<JoinMsg>, first critical section: entry(channel), and_modify /
\* or_insert_with.
JoinInsert(c, ch) ==
    /\ phase[c] = "steady"
    /\ IF channelsPoisoned
       THEN /\ phase' = Panicked(c)
            /\ UNCHANGED <<chan, channels>>
       ELSE /\ channels' = MapPut(channels, ch,
                   MapPut(IF ch \in DOMAIN channels THEN channels[ch] ELSE EmptyMap,
                          nick[c], c))
            /\ chan' = [chan EXCEPT ![c] = ch]
            /\ phase' = [phase EXCEPT ![c] = "join2"]
    /\ UNCHANGED <<nick, user, pending, quitInLogin>>
    /\ UNCHANGED <<queue, rxAlive, clients, clientsPoisoned, channelsPoisoned>>

\* Handler<JoinMsg>, second critical section: the Join reply to every
\* member of the channel, if the channel is (still) there.
JoinBroadcast(c) ==
    /\ phase[c] = "join2"
    /\ IF channelsPoisoned
       THEN /\ phase' = Panicked(c)
            /\ UNCHANGED <<queue, channelsPoisoned>>
       ELSE IF chan[c] \in DOMAIN channels
       THEN FanOut(c, Sinks(channels[chan[c]]),
                   Event("Join", nick[c], None, chan[c]), "steady")
       ELSE /\ phase' = [phase EXCEPT ![c] = "steady"]
            /\ UNCHANGED <<queue, channelsPoisoned>>
    /\ chan' = [chan EXCEPT ![c] = None]
    /\ UNCHANGED <<nick, user, pending, quitInLogin>>
    /\ UNCHANGED <<rxAlive, clients, channels, clientsPoisoned>>
    /\ QueueBound'

\* Handler<PartMsg>, first critical section: remove the sender and send
\* the Part reply to the members that remain.
PartRemove(c, ch) ==
    /\ phase[c] = "steady"
    /\ IF channelsPoisoned
       THEN /\ phase' = Panicked(c)
            /\ UNCHANGED <<queue, channels, channelsPoisoned, chan>>
       ELSE /\ IF ch \in DOMAIN channels /\ nick[c] \in DOMAIN channels[ch]
               THEN /\ channels' = [channels EXCEPT ![ch] = MapDel(@, nick[c])]
                    /\ FanOut(c, Sinks(channels'[ch]),
                              Event("Part", nick[c], None, ch), "part2")
               ELSE /\ phase' = [phase EXCEPT ![c] = "part2"]
                    /\ UNCHANGED <<queue, channels, channelsPoisoned>>
            /\ chan' = [chan EXCEPT ![c] = IF phase'[c] = "part2" THEN ch ELSE @]
    /\ UNCHANGED <<nick, user, pending, quitInLogin>>
    /\ UNCHANGED <<rxAlive, clients, clientsPoisoned>>
    /\ QueueBound'

\* Handler<PartMsg>, second critical section: remove the channel if it is
\* absent or empty.
PartCleanup(c) ==
    /\ phase[c] = "part2"
    /\ IF channelsPoisoned
       THEN /\ phase' = Panicked(c)
            /\ UNCHANGED channels
       ELSE /\ channels' = IF chan[c] \in DOMAIN channels
                              /\ DOMAIN channels[chan[c]] = {}
                           THEN MapDel(channels, chan[c])
                           ELSE channels
            /\ phase' = [phase EXCEPT ![c] = "steady"]
    /\ chan' = [chan EXCEPT ![c] = None]
    /\ UNCHANGED <<nick, user, pending, quitInLogin>>
    /\ UNCHANGED <<queue, rxAlive, clients, clientsPoisoned, channelsPoisoned>>

\* The channels whose member map holds nick n.
ChannelsOf(n) == {ch \in DOMAIN channels : n \in DOMAIN channels[ch]}

\* The number of channels of CS in which sink r is a member's sink.
Shared(r, CS) == Cardinality({ch \in CS : r \in Sinks(channels[ch])})

\* Handler<QuitMsg>, the iter_mut().for_each critical section.  For each
\* channel that holds the sender's nick, in the HashMap's iteration order:
\* the Quit reply goes to every member (the sender's own entry is still in
\* the map), then the sender is removed and an empty channel is noted in
\* empty_channels.  A send to a dropped Receiver in channel `bad' panics
\* with the guard alive, after the channels of P have been handled in full
\* and the sinks of S in `bad' have the reply.
QuitChannels(c) ==
    /\ phase[c] = "steady"
    /\ IF channelsPoisoned
       THEN /\ phase' = Panicked(c)
            /\ UNCHANGED <<queue, channels, channelsPoisoned, pending>>
       ELSE LET ev == Event("Quit", nick[c], None, None)
                mine == ChannelsOf(nick[c])
                ok == {ch \in mine : \A r \in Sinks(channels[ch]) : rxAlive[r]}
                Left(P) == [ch \in DOMAIN channels |->
                               IF ch \in P THEN MapDel(channels[ch], nick[c])
                                           ELSE channels[ch]]
            IN  IF ok = mine
                THEN /\ queue' = [r \in Conns |->
                                     AppendN(queue[r], ev, Shared(r, mine))]
                     /\ channels' = Left(mine)
                     /\ pending' = [pending EXCEPT ![c] =
                                       {ch \in mine : DOMAIN channels'[ch] = {}}]
                     /\ phase' = [phase EXCEPT ![c] = "quit2"]
                     /\ UNCHANGED channelsPoisoned
                ELSE /\ \E bad \in mine \ ok :
                        \E P \in SUBSET ok :
                        \E S \in SUBSET {r \in Sinks(channels[bad]) : rxAlive[r]} :
                          /\ queue' = [r \in Conns |->
                                AppendN(queue[r], ev,
                                        Shared(r, P) + IF r \in S THEN 1 ELSE 0)]
                          /\ channels' = Left(P)
                     /\ phase' = Panicked(c)
                     /\ channelsPoisoned' = TRUE
                     /\ UNCHANGED pending
    /\ UNCHANGED <<nick, user, chan, quitInLogin>>
    /\ UNCHANGED <<rxAlive, clients, clientsPoisoned>>
    /\ QueueBound'

\* Handler<QuitMsg>, empty_channels.into_iter().for_each: each channel noted
\* as empty is removed in a critical section of its own.
QuitRemoveEmpty(c) ==
    /\ phase[c] = "quit2"
    /\ pending[c] # {}
    /\ IF channelsPoisoned
       THEN /\ phase' = Panicked(c)
            /\ UNCHANGED <<channels, pending>>
       ELSE \E ch \in pending[c] :
            /\ channels' = MapDel(channels, ch)
            /\ pending' = [pending EXCEPT ![c] = @ \ {ch}]
            /\ UNCHANGED phase
    /\ UNCHANGED <<nick, user, chan, quitInLogin>>
    /\ UNCHANGED <<queue, rxAlive, clients, clientsPoisoned, channelsPoisoned>>

\* handle_message returns Break after a QUIT: the read loop ends and the
\* reader terminates.
QuitTerminate(c) ==
    /\ phase[c] = "quit2"
    /\ pending[c] = {}
    /\ SelfSend(c, Terminate, "done")
    /\ UNCHANGED sessionVars
    /\ UNCHANGED rxAlive
    /\ UNCHANGED registryVars
    /\ QueueBound'

\* A teardown that releases the nick from clients, and still runs no QUIT
\* fan-out.
SteadyConnLostReleasesNick(c) ==
    /\ phase[c] = "steady"
    /\ SelfSend(c, Terminate, "done")
    /\ clients' = MapDel(clients, nick[c])
    /\ UNCHANGED sessionVars
    /\ UNCHANGED <<rxAlive, channels, clientsPoisoned, channelsPoisoned>>
    /\ QueueBound'

\* recv() fails with ConnectionLost/ConnectionClosed in the read loop: the
\* loop ends and the reader terminates.
SteadyConnLost(c) ==
    /\ phase[c] = "steady"
    /\ SelfSend(c, Terminate, "done")
    /\ UNCHANGED sessionVars
    /\ UNCHANGED rxAlive
    /\ UNCHANGED registryVars
    /\ QueueBound'

----------------------------------------------------------------------------
\* A write loop that takes the newest queued event instead of the oldest.
WriterStepNewestFirst(c) ==
    /\ rxAlive[c]
    /\ queue[c] # <<>>
    /\ IF queue[c][Len(queue[c])].k = "Terminate"
       THEN /\ rxAlive' = [rxAlive EXCEPT ![c] = FALSE]
            /\ queue' = [queue EXCEPT ![c] = <<>>]
       ELSE /\ queue' = [queue EXCEPT ![c] = SubSeq(@, 1, Len(@) - 1)]
            /\ UNCHANGED rxAlive
    /\ UNCHANGED phase
    /\ UNCHANGED sessionVars
    /\ UNCHANGED registryVars

\* The write loop takes the next event: a Send is written to the
\* connection, a Terminate ends the loop and drops the Receiver.
WriterStep(c) ==
    /\ rxAlive[c]
    /\ queue[c] # <<>>
    /\ IF Head(queue[c]).k = "Terminate"
       THEN /\ rxAlive' = [rxAlive EXCEPT ![c] = FALSE]
            /\ queue' = [queue EXCEPT ![c] = <<>>]
       ELSE /\ queue' = [queue EXCEPT ![c] = Tail(@)]
            /\ UNCHANGED rxAlive
    /\ UNCHANGED phase
    /\ UNCHANGED sessionVars
    /\ UNCHANGED registryVars

\* write_message fails: unwrap() panics the writer, dropping the Receiver.
WriterFail(c) ==
    /\ rxAlive[c]
    /\ queue[c] # <<>>
    /\ Head(queue[c]).k # "Terminate"
    /\ rxAlive' = [rxAlive EXCEPT ![c] = FALSE]
    /\ queue' = [queue EXCEPT ![c] = <<>>]
    /\ UNCHANGED phase
    /\ UNCHANGED sessionVars
    /\ UNCHANGED registryVars

Next ==
    \E c \in Conns :
        \/ \E n \in Nicks : LoginNick(c, n)
        \/ LoginUser(c)
        \/ LoginQuit(c)
        \/ LoginConnLost(c)
        \/ InsertClient(c)
        \/ \E n \in Nicks : SteadyNick(c, n)
        \/ \E n \in Nicks : PrivMsgUser(c, n)
        \/ \E ch \in Chans : PrivMsgChannel(c, ch)
        \/ \E ch \in Chans : JoinInsert(c, ch)
        \/ JoinBroadcast(c)
        \/ \E ch \in Chans : PartRemove(c, ch)
        \/ PartCleanup(c)
        \/ QuitChannels(c)
        \/ QuitRemoveEmpty(c)
        \/ QuitTerminate(c)
        \/ SteadyConnLost(c)
        \/ WriterStep(c)
        \/ WriterFail(c)

Spec == Init /\ [][Next]_vars

\* The sessions with one more channel name to join, each session asking
\* for its own nick, and only the commands that change the channels
\* registry: runs of the server in which a session is in two channels.
MoreChans == 1..(NumChans + 1)

NextMoreChans ==
    \E c \in Conns :
        \/ LoginNick(c, c)
        \/ LoginUser(c)
        \/ InsertClient(c)
        \/ \E ch \in MoreChans : JoinInsert(c, ch)
        \/ JoinBroadcast(c)
        \/ QuitChannels(c)
        \/ QuitRemoveEmpty(c)
        \/ QuitTerminate(c)
        \/ SteadyConnLost(c)
        \/ WriterStep(c)

SpecMoreChans == Init /\ [][NextMoreChans]_vars

----------------------------------------------------------------------------
\* What a critical section does with the two mutexes and with the sinks, in
\* program order.  lock() takes the guard; the guard is dropped where the
\* temporary or the binding that holds it goes out of scope, also when an
\* unwrap() panics and the stack unwinds; a send names the sinks it is
\* called on.  A critical section has one possible sequence, or two where
\* the scope of the guard depends on the edition.
Lock(m) == [op |-> "lock", on |-> m]
Unlock(m) == [op |-> "unlock", on |-> m]
Send(R) == [op |-> "send", on |-> R]

\* lock().unwrap(), the operations done while the guard is alive, its drop.
Guarded(m, body) == <<Lock(m)>> \o body \o <<Unlock(m)>>

\* Handler<NickMsg>: the guard is a temporary of the if condition.
NickOps(c, n) ==
    {Guarded("clients", <<>>) \o
        (IF ~clientsPoisoned /\ n \in DOMAIN clients THEN <<Send({c})>> ELSE <<>>)}

\* clients.lock().unwrap().insert(..): one statement.
InsertClientOps(c) == {Guarded("clients", <<>>)}

\* Handler<PrivMsg>, Target::User: the guard is a temporary of the if-let
\* scrutinee, alive in the body and, before edition 2024, in the else block.
PrivMsgUserOps(c, n) ==
    IF clientsPoisoned THEN {Guarded("clients", <<>>)}
    ELSE IF n \in DOMAIN clients
    THEN {Guarded("clients", <<Send({clients[n]})>>)}
    ELSE {Guarded("clients", <<Send({c})>>),
          Guarded("clients", <<>>) \o <<Send({c})>>}

\* Handler<PrivMsg>, Target::Channel.
PrivMsgChannelOps(c, ch) ==
    IF channelsPoisoned THEN {Guarded("channels", <<>>)}
    ELSE IF ch \in DOMAIN channels
    THEN {Guarded("channels",
            <<Send({channels[ch][n] : n \in DOMAIN channels[ch] \ {nick[c]}})>>)}
    ELSE {Guarded("channels", <<Send({c})>>),
          Guarded("channels", <<>>) \o <<Send({c})>>}

\* Handler<JoinMsg>: the entry() statement, then the if-let of the broadcast.
JoinInsertOps(c, ch) == {Guarded("channels", <<>>)}

JoinBroadcastOps(c) ==
    IF ~channelsPoisoned /\ chan[c] \in DOMAIN channels
    THEN {Guarded("channels", <<Send(Sinks(channels[chan[c]]))>>)}
    ELSE {Guarded("channels", <<>>)}

\* Handler<PartMsg>: the if-let statement, then the guard binding that is
\* dropped by drop(guard).
PartRemoveOps(c, ch) ==
    IF ~channelsPoisoned /\ ch \in ChannelsOf(nick[c])
    THEN {Guarded("channels", <<Send(Sinks(MapDel(channels[ch], nick[c])))>>)}
    ELSE {Guarded("channels", <<>>)}

PartCleanupOps(c) == {Guarded("channels", <<>>)}

\* A QUIT handler that removes the empty channels inside the for_each that
\* holds the guard.
QuitChannelsOpsRemovingInside(c) ==
    IF channelsPoisoned THEN {Guarded("channels", <<>>)}
    ELSE {Guarded("channels",
            <<Send(UNION {Sinks(channels[ch]) : ch \in ChannelsOf(nick[c])})>>
            \o Guarded("channels", <<>>))}

\* Handler<QuitMsg>: the iter_mut().for_each statement, then one lock()
\* statement for each channel of empty_channels.
QuitChannelsOps(c) ==
    IF channelsPoisoned THEN {Guarded("channels", <<>>)}
    ELSE {Guarded("channels",
            <<Send(UNION {Sinks(channels[ch]) : ch \in ChannelsOf(nick[c])})>>)}

QuitRemoveEmptyOps(c) == {Guarded("channels", <<>>)}

\* The possible sequences of the critical section that session c's reader
\* runs in the current step (none for a step that takes no lock).
StepOps(c) ==
    UNION ( {IF LoginNick(c, n) \/ SteadyNick(c, n) THEN NickOps(c, n) ELSE {} :
                n \in Nicks}
       \cup {IF PrivMsgUser(c, n) THEN PrivMsgUserOps(c, n) ELSE {} : n \in Nicks}
       \cup {IF PrivMsgChannel(c, ch) THEN PrivMsgChannelOps(c, ch) ELSE {} :
                ch \in Chans}
       \cup {IF JoinInsert(c, ch) THEN JoinInsertOps(c, ch) ELSE {} : ch \in Chans}
       \cup {IF PartRemove(c, ch) THEN PartRemoveOps(c, ch) ELSE {} : ch \in Chans}
       \cup {IF InsertClient(c) THEN InsertClientOps(c) ELSE {},
             IF JoinBroadcast(c) THEN JoinBroadcastOps(c) ELSE {},
             IF PartCleanup(c) THEN PartCleanupOps(c) ELSE {},
             IF QuitChannels(c) THEN QuitChannelsOps(c) ELSE {},
             IF QuitRemoveEmpty(c) THEN QuitRemoveEmptyOps(c) ELSE {}} )

----------------------------------------------------------------------------
\* Sessions that have completed login and are reading commands.
LoggedIn(c) == phase[c] \in {"steady", "join2", "part2"}

\* A reader that has returned after completing login.
Ended(c) == phase[c] = "done" /\ nick[c] # None /\ user[c]

LastIs(q, ev) == q # <<>> /\ q[Len(q)] = ev

\* C1: no two live logged-in sessions hold the same nick, and clients maps
\* the nick of every live logged-in session to that session's own sink.
C1_NickOwnsClientsEntry ==
    \A s \in Conns :
        LoggedIn(s) =>
            /\ nick[s] \in DOMAIN clients
            /\ clients[nick[s]] = s
            /\ \A t \in Conns \ {s} : LoggedIn(t) => nick[t] # nick[s]

\* C2: once a session that completed login has ended (QUIT or connection
\* loss), its nick is in neither clients nor any channel's member map.
C2_EndedSessionRemoved ==
    \A c \in Conns :
        Ended(c) =>
            /\ nick[c] \notin DOMAIN clients
            /\ ChannelsOf(nick[c]) = {}

\* C3: when the read loop of a logged-in session ends on connection loss,
\* the session leaves every channel it is in and every other member of
\* those channels gets a Quit reply.
C3_ConnLostQuitFanOut ==
    [][\A c \in Conns :
          (SteadyConnLost(c) /\ phase'[c] = "done") =>
              /\ \A ch \in DOMAIN channels' : nick[c] \notin DOMAIN channels'[ch]
              /\ \A ch \in ChannelsOf(nick[c]) :
                     \A r \in Sinks(channels[ch]) \ {c} :
                         queue'[r] = Append(queue[r],
                                            Event("Quit", nick[c], None, None))
      ]_vars

\* The step is a PRIVMSG/JOIN/PART/QUIT of session c that sends to a sink
\* whose writer has exited.
SendsToExitedWriter(c) ==
    \/ \E n \in Nicks :
          /\ PrivMsgUser(c, n)
          /\ ~clientsPoisoned /\ n \in DOMAIN clients /\ ~rxAlive[clients[n]]
    \/ \E ch \in Chans :
          /\ PrivMsgChannel(c, ch)
          /\ ~channelsPoisoned /\ ch \in DOMAIN channels
          /\ \E n \in DOMAIN channels[ch] \ {nick[c]} : ~rxAlive[channels[ch][n]]
    \/ /\ JoinBroadcast(c)
       /\ ~channelsPoisoned /\ chan[c] \in DOMAIN channels
       /\ \E r \in Sinks(channels[chan[c]]) : ~rxAlive[r]
    \/ \E ch \in Chans :
          /\ PartRemove(c, ch)
          /\ ~channelsPoisoned /\ ch \in ChannelsOf(nick[c])
          /\ \E n \in DOMAIN channels[ch] \ {nick[c]} : ~rxAlive[channels[ch][n]]
    \/ /\ QuitChannels(c)
       /\ ~channelsPoisoned
       /\ \E ch \in ChannelsOf(nick[c]) :
              \E r \in Sinks(channels[ch]) : ~rxAlive[r]

\* C4: a send to a sink whose writer has exited does not fail the sender:
\* the sending session finishes the command and goes on.
C4_SendToExitedWriterSilent ==
    [][\A c \in Conns : SendsToExitedWriter(c) => phase'[c] # "panicked"]_vars

\* C5: no failure leaves a registry poisoned: both mutexes can be acquired
\* in every reachable state.
C5_RegistriesNeverPoisoned ==
    ~clientsPoisoned /\ ~channelsPoisoned

\* C6: handling QUIT enqueues a Quit reply to every other member of every
\* channel that holds the sender, and none on the sender's own sink.
C6_QuitNotSentToQuitter ==
    [][\A c \in Conns :
          QuitChannels(c) =>
              /\ queue'[c] = queue[c]
              /\ \A ch \in ChannelsOf(nick[c]) :
                     \A r \in Sinks(channels[ch]) \ {c} :
                         LastIs(queue'[r], Event("Quit", nick[c], None, None))
      ]_vars

\* C7: a session that received QUIT during login never completes a login
\* with later messages: it is never inserted into clients.
C7_QuitInLoginNeverInserted ==
    \A c \in Conns : quitInLogin[c] => c \notin Sinks(clients)

\* C8 (as claimed): after login a NICK message changes nothing and enqueues
\* no reply, whatever nick it names.
C8_SteadyNickSilent ==
    [][\A c \in Conns : \A n \in Nicks :
          SteadyNick(c, n) => UNCHANGED <<queue, nick, clients, channels>>
      ]_vars

\* C8 (amended): after login a NICK message never changes the session's
\* nick or either registry and enqueues nothing on another session's sink;
\* it enqueues nothing at all when the named nick is not in clients, and
\* one NickCollision error on the session's own sink when it is (the
\* session's own nick included), unless that send fails because clients is
\* poisoned or the session's writer has exited.
C8_SteadyNickCollisionOnly ==
    [][\A c \in Conns : \A n \in Nicks :
          SteadyNick(c, n) =>
              /\ UNCHANGED <<nick, clients, channels>>
              /\ UNCHANGED <<clientsPoisoned, channelsPoisoned>>
              /\ \A r \in Conns \ {c} : queue'[r] = queue[r]
              /\ queue'[c] =
                    IF n \in DOMAIN clients /\ ~clientsPoisoned /\ rxAlive[c]
                    THEN Append(queue[c], ErrReply("ErrNickCollision"))
                    ELSE queue[c]
      ]_vars

\* A logged-in session whose newest queued event is a NickCollision error:
\* the Welcome of its login has left the queue or precedes it, so the error
\* answers a NICK sent after login.
C8_Witness ==
    \E c \in Conns :
        /\ phase[c] = "steady"
        /\ LastIs(queue[c], ErrReply("ErrNickCollision"))

\* C9: a JOIN handled to completion by a session whose nick no other
\* session holds enqueues a Join reply to every member of the channel, the
\* joiner's own sink included.
C9_JoinReachesJoiner ==
    [][\A c \in Conns :
          (/\ JoinBroadcast(c)
           /\ phase'[c] = "steady"
           /\ \A t \in Conns \ {c} : nick[t] # nick[c]) =>
              /\ chan[c] \in DOMAIN channels
              /\ \A r \in Sinks(channels[chan[c]]) \cup {c} :
                     queue'[r] = Append(queue[r],
                                        Event("Join", nick[c], None, chan[c]))
      ]_vars

\* C10: a PRIVMSG to an existing channel enqueues exactly one PrivMsg reply
\* on the sink of every member whose nick is not the sender's, nothing on
\* the sender's own sink, and changes neither registry.
C10_ChannelPrivMsgFanOut ==
    [][\A c \in Conns : \A ch \in Chans :
          (PrivMsgChannel(c, ch) /\ ch \in DOMAIN channels) =>
              /\ queue' = Deliver(queue,
                                  {channels[ch][n] :
                                      n \in DOMAIN channels[ch] \ {nick[c]}},
                                  Event("PrivMsg", nick[c], None, ch))
              /\ queue'[c] = queue[c]
              /\ UNCHANGED registryVars
      ]_vars

\* No JOIN, PART or QUIT handler is between two of its critical sections.
Quiescent == \A c \in Conns : phase[c] \notin {"join2", "part2", "quit2"}

\* C11: once every started JOIN, PART and QUIT has ended, every channel
\* entry of the registry has a non-empty member map (an entry is the only
\* place a member map lives, so the converse is the map's structure).
C11_NoEmptyChannelWhenQuiescent ==
    Quiescent => \A ch \in DOMAIN channels : DOMAIN channels[ch] # {}

\* C12: every nick in the member map of any channel is a key of clients.
C12_MembersAreClients ==
    \A ch \in DOMAIN channels : DOMAIN channels[ch] \subseteq DOMAIN clients

\* A session that has ended is still a member of a channel.
C12_Witness ==
    \E c \in Conns : Ended(c) /\ ChannelsOf(nick[c]) # {}

\* The number of Welcome replies in a queue.
Welcomes(q) == Cardinality({i \in 1..Len(q) : q[i].k = "Welcome"})

\* C13: a session leaves the login loop at most once, with nick and user
\* both set and by enqueueing exactly one Welcome reply on its own sink;
\* no other step enqueues a Welcome; and clients comes to map a nick to the
\* session's sink only in the step that follows, for the session's nick.
C13_OneWelcomeThenInsert ==
    [][\A c \in Conns :
          /\ (phase[c] # "login") => (phase'[c] # "login")
          /\ (phase[c] # "insert" /\ phase'[c] = "insert") =>
                 /\ phase[c] = "login"
                 /\ nick'[c] # None /\ user'[c]
                 /\ queue'[c] = Append(queue[c],
                                       Event("Welcome", None, nick'[c], None))
          /\ (Welcomes(queue'[c]) > Welcomes(queue[c])) =>
                 (phase[c] = "login" /\ phase'[c] = "insert")
          /\ (phase[c] \in {"login", "insert"} /\ phase'[c] = "steady") =>
                 phase[c] = "insert"
          /\ \A n \in DOMAIN clients' :
                 (clients'[n] = c /\ (n \notin DOMAIN clients \/ clients[n] # c)) =>
                     /\ phase[c] = "insert" /\ phase'[c] = "steady"
                     /\ n = nick[c]
      ]_vars

\* A session in SteadyState, in clients under its nick, its Welcome queued.
C13_Witness ==
    \E c \in Conns :
        /\ phase[c] = "steady"
        /\ nick[c] \in DOMAIN clients /\ clients[nick[c]] = c
        /\ queue[c] = <<Event("Welcome", None, nick[c], None)>>

\* C14: a PART of a channel the sender is a member of removes the sender
\* from the member map and enqueues a Part reply to exactly the members
\* that remain; any other PART enqueues nothing and changes no registry
\* (stated for a PART that finds the channels mutex usable).
C14_PartRemovesAndNotifies ==
    [][\A c \in Conns : \A ch \in Chans :
          (PartRemove(c, ch) /\ ~channelsPoisoned) =>
              IF ch \in ChannelsOf(nick[c])
              THEN /\ channels' = [channels EXCEPT ![ch] = MapDel(@, nick[c])]
                   /\ queue' = Deliver(queue, Sinks(channels'[ch]),
                                       Event("Part", nick[c], None, ch))
                   /\ UNCHANGED clients
              ELSE UNCHANGED <<queue, clients, channels>>
      ]_vars
\* C15: in Login (with the clients mutex usable), a NICK naming a nick that
\* is a key of clients enqueues NickCollision on the requester's own sink
\* and changes nothing else: the nick stays unset, the session stays in
\* Login, the registries are unchanged.  A NICK sets the session's nick only
\* if that nick was empty and the requested nick is not in clients.
C15_LoginNickCollision ==
    [][\A c \in Conns, n \in Nicks :
          (LoginNick(c, n) /\ ~clientsPoisoned) =>
              /\ n \in DOMAIN clients =>
                    /\ queue' = [queue EXCEPT
                                   ![c] = Append(@, ErrReply("ErrNickCollision"))]
                    /\ phase'[c] = "login"
                    /\ UNCHANGED nick
                    /\ UNCHANGED registryVars
              /\ nick'[c] # nick[c] =>
                    /\ nick[c] = None
                    /\ n \notin DOMAIN clients
                    /\ nick'[c] = n]_vars
\* C16: every sink is FIFO.  A step changes a sink's queue only by appending
\* at its tail (a sender enqueues), by taking its head (the write loop writes
\* the oldest event), or by discarding it whole when the Receiver is dropped:
\* of two events enqueued on a sink in order, the second is never written
\* before the first, under every interleaving.
C16_SinkFifo ==
    [][\A c \in Conns :
          \/ rxAlive[c] /\ ~rxAlive'[c] /\ queue'[c] = <<>>
          \/ \E k \in {0, 1} :
                /\ Len(queue[c]) >= k
                /\ Len(queue'[c]) >= Len(queue[c]) - k
                /\ \A i \in 1..(Len(queue[c]) - k) :
                      queue'[c][i] = queue[c][i + k]
                /\ k = 1 => rxAlive[c] /\ UNCHANGED phase]_vars

\* A sink holds two different events enqueued, in order, by the same peer.
C16_Witness ==
    \E c \in Conns :
        /\ Len(queue[c]) = 2
        /\ queue[c][1] # queue[c][2]
        /\ queue[c][1].from = queue[c][2].from
        /\ queue[c][1].from \notin {None, nick[c]}
        /\ rxAlive[c]
\* The guards alive just before the i-th operation of sequence s.
Held(s, i) ==
    {m \in {"clients", "channels"} :
        \E j \in 1..(i - 1) :
            /\ s[j] = Lock(m)
            /\ \A k \in (j + 1)..(i - 1) : s[k] # Unlock(m)}

\* C17: no session holds the clients lock and the channels lock at once and
\* no session re-acquires a lock it holds: every lock() of every critical
\* section is called with no guard alive, and every critical section ends
\* with no guard alive, so no session waits for a lock while holding one.
C17_LockDiscipline ==
    [][\A c \in Conns : \A s \in StepOps(c) :
          /\ \A i \in 1..Len(s) : s[i].op = "lock" => Held(s, i) = {}
          /\ Held(s, Len(s) + 1) = {}]_vars

\* Two sessions are each between the two critical sections of a handler,
\* one of a PART and one of a JOIN, after each has used both mutexes.
C17_Witness ==
    \E c, d \in Conns :
        /\ phase[c] = "part2"
        /\ phase[d] = "join2"
        /\ {nick[c], nick[d]} \subseteq DOMAIN clients
\* C18: a fan-out enqueues only after the lock is released: no session
\* calls send on a peer's sink while a guard is alive.
C18_PeerSendsAfterRelease ==
    [][\A c \in Conns : \A s \in StepOps(c) :
          \A i \in 1..Len(s) :
              (s[i].op = "send" /\ s[i].on \ {c} # {}) => Held(s, i) = {}]_vars
\* C19: PART and QUIT remove the sender and delete the channel that becomes
\* empty in one atomic step: in no reachable state can a session that is
\* ready to run a command find a channel entry whose member map is empty.
C19_EmptyChannelNeverVisible ==
    \A ch \in DOMAIN channels :
        DOMAIN channels[ch] = {} => \A d \in Conns : phase[d] # "steady"
\* C20: once a session's JOIN of a channel has completed, the channel exists
\* and holds the session's nick until that session's own PART or QUIT: a
\* step that ends the membership of a session (the only owner of its nick)
\* is that session's PART of the channel or its QUIT.
C20_MembershipEndsByOwnPartOrQuit ==
    [][\A c \in Conns, ch \in Chans :
          ( /\ phase[c] = "steady"
            /\ \A t \in Conns \ {c} : nick[t] # nick[c]
            /\ ch \in ChannelsOf(nick[c])
            /\ ch \notin ChannelsOf(nick[c])' )
          => PartRemove(c, ch) \/ QuitChannels(c)]_vars
====
